---- MODULE Spec2Model ----
(***************************************************************************)
(* Model of src/app.py: the Streamlit career bot.  One browser session is  *)
(* a sequence of render cycles (runs of main()); st.session_state lives    *)
(* across the cycles, the locals of main() live within one cycle, and the  *)
(* OpenAI service keeps the vector stores, assistants, the thread and the  *)
(* runs.                                                                   *)
(*                                                                         *)
(* A Python str is a sequence of tokens; a token is a whitespace character *)
(* (" ", "\n") or an indivisible piece of text.  None, "" and a missing    *)
(* session key are all falsy in the code's tests and are the empty         *)
(* sequence here.                                                          *)
(***************************************************************************)
EXTENDS Integers, Sequences, FiniteSets, TLC

VARIABLES
    messages,         \* st.session_state.messages (<<>>: key not yet set)
    assistant_id,     \* st.session_state.assistant_id (0: unset)
    thread_id,        \* st.session_state.thread_id (0: unset)
    rag_files,        \* st.session_state.rag_files
    pending_prompt,   \* st.session_state.pending_prompt (<<>>: absent)
    pc,               \* position of main() in the current render cycle
    secretKey,        \* get_api_key(): st.secrets["OPENAI_API_KEY"] as found
    envKey,           \* get_api_key(): os.environ["OPENAI_API_KEY"] as found
    typedKey,         \* get_api_key(): content of the sidebar key input
                      \* (the three are kept until main() has tested the key)
    api_key,          \* main(): api_key
    envRead,          \* get_api_key(): os.getenv was called in this cycle
    prompted,         \* get_api_key(): the sidebar input was shown
    clientBuilt,      \* main(): OpenAI(api_key=...) was constructed
    instructionFile,  \* load_system_instruction(): system_instruction.txt as found
    system_instruction, \* main(): system_instruction
                      \* (the two are kept until initialize_assistant() is over)
    found,            \* initialize_assistant(): rag_files
    vector_store_id,  \* initialize_assistant(): vector_store_id (0: None)
    prompt,           \* main(): prompt
    typedInput,       \* value st.chat_input returned in this cycle
    response,         \* main(): response
    askOutcome,       \* how ask_assistant ended: "none", "returned", "raised"
    pollTick,         \* create_and_poll: parity of the retrievals made so far
    calls,            \* remote requests issued in this cycle, in order
    vsCreated,        \* service: vector stores created so far
    uploads,          \* service: file batches uploaded so far
    asstCreated,      \* service: assistants created so far
    asstTools,        \* service: the last assistant has file_search bound
    threadsCreated,   \* service: threads created so far
    thread,           \* service: messages of the session's thread, oldest first
    runsCreated,      \* service: runs created so far
    runStatus,        \* service: status of the latest run
    cycles            \* render cycles started so far

vars == <<messages, assistant_id, thread_id, rag_files, pending_prompt, pc,
          secretKey, envKey, typedKey, api_key, envRead, prompted,
          clientBuilt, instructionFile, system_instruction, found,
          vector_store_id, prompt, typedInput, response,
          askOutcome, pollTick, calls, vsCreated, uploads, asstCreated, asstTools,
          threadsCreated, thread, runsCreated, runStatus, cycles>>

session == <<messages, assistant_id, thread_id, rag_files, pending_prompt>>
keySources == <<secretKey, envKey, typedKey>>
service == <<vsCreated, uploads, asstCreated, asstTools, threadsCreated,
             thread, runsCreated, runStatus>>

\* Render cycles explored per session.
MaxCycles == 2

----------------------------------------------------------------------------
(* Text *)

Whitespace == {" ", "\n"}

RECURSIVE LStrip(_)
LStrip(s) ==
    IF s # <<>> /\ Head(s) \in Whitespace THEN LStrip(Tail(s)) ELSE s

RECURSIVE RStrip(_)
RStrip(s) ==
    IF s # <<>> /\ s[Len(s)] \in Whitespace
    THEN RStrip(SubSeq(s, 1, Len(s) - 1))
    ELSE s

\* str.strip()
Strip(s) == RStrip(LStrip(s))

\* sep.join(chunks)
RECURSIVE Join(_, _)
Join(chunks, sep) ==
    IF chunks = <<>> THEN <<>>
    ELSE IF Len(chunks) = 1 THEN chunks[1]
    ELSE chunks[1] \o sep \o Join(Tail(chunks), sep)

\* a or b
Or(a, b) == IF a # <<>> THEN a ELSE b

FALLBACK == <<"Please ask Daaniyal directly in the interview.">>

RUN_ISSUE ==
    <<"I encountered an issue while generating a response.", " ">> \o FALLBACK

API_ERROR ==
    <<"I could not complete that request due to an API error.", " ">>
        \o FALLBACK \o <<"\n", "\n", "Details:", " ">>

GREETING ==
    [role |-> "assistant",
     content |-> <<"Welcome. I am Daaniyal Khan's executive career assistant. Ask me about leadership impact, transformation programs, or strategic fit.">>]

SUGGESTED_QUESTIONS ==
    << <<"What was the Digital VO Project?">>,
       <<"How did he optimize Recruiting?">>,
       <<"What is his leadership style?">> >>

----------------------------------------------------------------------------
(* Inputs of the environment *)

\* Values the secret store, the environment and the sidebar input can hold.
StoreKeys == {<<>>, <<"sk-store">>}
EnvKeys   == {<<>>, <<"sk-env">>}
TypedKeys == {<<>>, <<"sk-typed">>}

\* What st.chat_input can return: None or the submitted text.
TypedPrompts == {<<>>, <<"Why should we hire him?">>}

\* str(exc) of an OpenAIError raised by a remote call.
ExcDetails ==
    { <<"Error code: 429 - {'error': {'code': 'rate_limit_exceeded'}}">> }

CV_FILE      == "Daaniyal_Khan_Premium_CV.html"
CONCEPT_FILE == "Competence-Center-Konzept.pdf"
DVO_FILE     == "Project_DVO_Summary.pdf"

\* Working directories initialize_assistant() may find: the regular files.
FileSystems == { {}, {CV_FILE, DVO_FILE} }

SYSTEM_PROMPT_FALLBACK ==
    <<"You are Daaniyal Khan's Chief of Staff speaking to recruiters and C-level leaders. ...">>

\* system_instruction.txt: missing, or present with this text.
NoFile == [exists |-> FALSE, text |-> <<>>]
InstructionFiles ==
    { NoFile,
      [exists |-> TRUE, text |-> <<>>],
      [exists |-> TRUE, text |-> <<" ", "You speak for Daaniyal Khan.", "\n">>] }

TextPart(v) == [type |-> "text", text |-> v]
ImagePart   == [type |-> "image_file", text |-> <<>>]

\* message.content of the assistant messages the service may produce.
Replies ==
    { <<TextPart(<<" ", "It scaled partner onboarding to 2000+ partners.", "\n">>)>>,
      <<TextPart(<<"First.">>), ImagePart, TextPart(<<"Second.">>)>>,
      <<ImagePart, TextPart(<<" ">>), TextPart(<<>>)>> }

\* The statuses at which create_and_poll stops polling.
TerminalStatuses ==
    {"completed", "failed", "cancelled", "expired", "incomplete",
     "requires_action"}

\* The unsuccessful ends of a run that the sessions explored here meet.
EndStatuses == {"failed", "expired"}

----------------------------------------------------------------------------
(* Pure functions of app.py *)

\* Variant: the environment variable is consulted before the secret store.
get_api_key_EnvFirst(secret, env, typed) ==
    LET key1 == env
        key2 == IF key1 = <<>> THEN secret ELSE key1
        key3 == IF key2 = <<>> THEN typed ELSE key2
    IN  [key      |-> Or(key3, <<>>),
         envRead  |-> TRUE,
         prompted |-> (key2 = <<>>)]

\* get_api_key(): the key, and which of the lower sources were consulted.
get_api_key(secret, env, typed) ==
    LET key1 == secret
        key2 == IF key1 = <<>> THEN env ELSE key1
        key3 == IF key2 = <<>> THEN typed ELSE key2
    IN  [key      |-> Or(key3, <<>>),
         envRead  |-> (key1 = <<>>),
         prompted |-> (key2 = <<>>)]

\* load_system_instruction()
load_system_instruction(file) ==
    IF file.exists THEN Strip(file.text) ELSE SYSTEM_PROMPT_FALLBACK

\* Path(".").glob("*DVO*") and Path(".").glob("*Project*DVO*")
GlobDVO(dir)        == IF DVO_FILE \in dir THEN <<DVO_FILE>> ELSE <<>>
GlobProjectDVO(dir) == IF DVO_FILE \in dir THEN <<DVO_FILE>> ELSE <<>>

RECURSIVE UniqueFiles(_, _, _)
UniqueFiles(candidates, seen, dir) ==
    IF candidates = <<>> THEN <<>>
    ELSE IF Head(candidates) \in dir /\ Head(candidates) \notin seen
         THEN <<Head(candidates)>>
                \o UniqueFiles(Tail(candidates), seen \cup {Head(candidates)}, dir)
         ELSE UniqueFiles(Tail(candidates), seen, dir)

find_rag_files(dir) ==
    UniqueFiles(<<CV_FILE, CONCEPT_FILE>> \o GlobDVO(dir) \o GlobProjectDVO(dir),
                {}, dir)

RECURSIVE TextChunks(_)
TextChunks(content) ==
    IF content = <<>> THEN <<>>
    ELSE IF Head(content).type = "text"
         THEN <<Head(content).text>> \o TextChunks(Tail(content))
         ELSE TextChunks(Tail(content))

\* Variant: the fallback is chosen before the text is trimmed.
extract_assistant_text_FallbackBeforeStrip(message) ==
    Strip(Or(Join(TextChunks(message.content), <<"\n">>), FALLBACK))

\* Variant: the trimmed text is returned even when it is empty.
extract_assistant_text_NoFallback(message) ==
    Strip(Join(TextChunks(message.content), <<"\n">>))

extract_assistant_text(message) ==
    Or(Strip(Join(TextChunks(message.content), <<"\n">>)), FALLBACK)

\* messages.list(thread_id=...).data: the thread's messages, newest first.
RECURSIVE Reverse(_)
Reverse(s) == IF s = <<>> THEN <<>> ELSE Append(Reverse(Tail(s)), Head(s))

MessagesList == Reverse(thread)

\* ask_assistant(), lines 210-215: the reply taken from the listed messages.
RECURSIVE FirstAssistantText(_)
FirstAssistantText(data) ==
    IF data = <<>> THEN FALLBACK
    ELSE IF Head(data).role = "assistant"
         THEN extract_assistant_text(Head(data))
         ELSE FirstAssistantText(Tail(data))

\* The except-branch of main(): the apology with str(exc) appended.
ApiErrorResponse(exc) == API_ERROR \o exc

\* A remote call returns (<<>>) or raises an OpenAIError with this text.
Outcomes == {<<>>} \cup ExcDetails

----------------------------------------------------------------------------
(* The session *)

keyLocals  == <<api_key, envRead, prompted, clientBuilt>>
instrLocals == <<instructionFile, system_instruction>>
initLocals == <<found, vector_store_id>>
turnLocals == <<prompt, typedInput, response, askOutcome, pollTick>>
locals     == <<keySources, keyLocals, instrLocals, initLocals, turnLocals,
               calls>>

Init ==
    /\ messages = <<>>
    /\ assistant_id = 0
    /\ thread_id = 0
    /\ rag_files = <<>>
    /\ pending_prompt = <<>>
    /\ pc = "idle"
    /\ secretKey = <<>>
    /\ envKey = <<>>
    /\ typedKey = <<>>
    /\ api_key = <<>>
    /\ envRead = FALSE
    /\ prompted = FALSE
    /\ clientBuilt = FALSE
    /\ instructionFile = NoFile
    /\ system_instruction = <<>>
    /\ found = <<>>
    /\ vector_store_id = 0
    /\ prompt = <<>>
    /\ typedInput = <<>>
    /\ response = <<>>
    /\ askOutcome = "none"
    /\ pollTick = 0
    /\ calls = <<>>
    /\ vsCreated = 0
    /\ uploads = 0
    /\ asstCreated = 0
    /\ asstTools = FALSE
    /\ threadsCreated = 0
    /\ thread = <<>>
    /\ runsCreated = 0
    /\ runStatus = "none"
    /\ cycles = 0

\* The script run is over (it returned or st.stop() was called): its locals
\* are gone, the session state and the service remain.
EndCycle ==
    /\ pc' = "idle"
    /\ secretKey' = <<>>
    /\ envKey' = <<>>
    /\ typedKey' = <<>>
    /\ api_key' = <<>>
    /\ envRead' = FALSE
    /\ prompted' = FALSE
    /\ clientBuilt' = FALSE
    /\ instructionFile' = NoFile
    /\ system_instruction' = <<>>
    /\ found' = <<>>
    /\ vector_store_id' = 0
    /\ prompt' = <<>>
    /\ typedInput' = <<>>
    /\ response' = <<>>
    /\ askOutcome' = "none"
    /\ pollTick' = 0
    /\ calls' = <<>>

\* A rerun of the script: main() up to the return of get_api_key(), with
\* the secret, the environment value and the sidebar text it finds.
StartCycle(secret, env, typed) ==
    /\ pc = "idle"
    /\ cycles < MaxCycles
    /\ cycles' = cycles + 1
    /\ secretKey' = secret
    /\ envKey' = env
    /\ typedKey' = typed
    /\ LET r == get_api_key(secret, env, typed)
       IN  /\ api_key' = r.key
           /\ envRead' = r.envRead
           /\ prompted' = r.prompted
    /\ pc' = "key"
    /\ UNCHANGED <<session, service, clientBuilt, instrLocals, initLocals,
                   turnLocals, calls>>

\* Variant: the empty key is not tested and the script goes on.
StopNoKey_GoOn ==
    /\ pc = "key"
    /\ api_key = <<>>
    /\ clientBuilt' = TRUE
    /\ messages' = IF messages = <<>> THEN <<GREETING>> ELSE messages
    /\ pc' = "init"
    /\ UNCHANGED <<assistant_id, thread_id, rag_files, pending_prompt, service,
                   keySources, api_key, envRead, prompted, instrLocals,
                   initLocals, turnLocals, calls, cycles>>

\* main(), lines 250-251: st.stop() on an empty key.
StopNoKey ==
    /\ pc = "key"
    /\ api_key = <<>>
    /\ EndCycle
    /\ UNCHANGED <<session, service, cycles>>

\* Variant: the transcript is seeded on every run of the script.
Setup_Reseed(file) ==
    /\ pc = "key"
    /\ api_key # <<>>
    /\ clientBuilt' = TRUE
    /\ instructionFile' = file
    /\ system_instruction' = load_system_instruction(file)
    /\ messages' = <<GREETING>>
    /\ secretKey' = <<>>
    /\ envKey' = <<>>
    /\ typedKey' = <<>>
    /\ pc' = "init"
    /\ UNCHANGED <<assistant_id, thread_id, rag_files, pending_prompt, service,
                   api_key, envRead, prompted, initLocals, turnLocals, calls,
                   cycles>>

\* main(), lines 253-262: the client, the instruction read from the file
\* as found, the seeded transcript.
Setup(file) ==
    /\ pc = "key"
    /\ api_key # <<>>
    /\ clientBuilt' = TRUE
    /\ instructionFile' = file
    /\ system_instruction' = load_system_instruction(file)
    /\ messages' = IF messages = <<>> THEN <<GREETING>> ELSE messages
    /\ secretKey' = <<>>
    /\ envKey' = <<>>
    /\ typedKey' = <<>>
    /\ pc' = "init"
    /\ UNCHANGED <<assistant_id, thread_id, rag_files, pending_prompt, service,
                   api_key, envRead, prompted, initLocals, turnLocals, calls,
                   cycles>>

\* initialize_assistant(), lines 148-149.
InitSkip ==
    /\ pc = "init"
    /\ assistant_id # 0
    /\ instructionFile' = NoFile
    /\ system_instruction' = <<>>
    /\ pc' = "buttons"
    /\ UNCHANGED <<session, service, keySources, keyLocals, initLocals,
                   turnLocals, calls, cycles>>

\* initialize_assistant(), lines 151-154, in the working directory dir.
FindRagFiles(dir) ==
    /\ pc = "init"
    /\ assistant_id = 0
    /\ found' = find_rag_files(dir)
    /\ pc' = IF found' # <<>> THEN "vs_create" ELSE "asst_create"
    /\ UNCHANGED <<session, service, keySources, keyLocals, instrLocals,
                   vector_store_id, turnLocals, calls, cycles>>

\* main(), lines 266-268: st.error and st.stop() on an OpenAIError.
InitFailed ==
    /\ EndCycle
    /\ UNCHANGED <<session, cycles>>

\* initialize_assistant(), line 155.
VectorStoreCreate(out) ==
    /\ pc = "vs_create"
    /\ IF out = <<>>
       THEN /\ vsCreated' = vsCreated + 1
            /\ calls' = Append(calls, "vector_stores.create")
            /\ pc' = "upload"
            /\ UNCHANGED <<session, keySources, keyLocals, instrLocals,
                           initLocals, turnLocals, cycles>>
       ELSE /\ UNCHANGED vsCreated
            /\ InitFailed
    /\ UNCHANGED <<uploads, asstCreated, asstTools, threadsCreated, thread,
                   runsCreated, runStatus>>

\* initialize_assistant(), lines 156-165.
UploadAndPoll(out) ==
    /\ pc = "upload"
    /\ IF out = <<>>
       THEN /\ uploads' = uploads + 1
            /\ vector_store_id' = vsCreated
            /\ calls' = Append(calls, "file_batches.upload_and_poll")
            /\ pc' = "asst_create"
            /\ UNCHANGED <<session, keySources, keyLocals, instrLocals, found,
                           turnLocals, cycles>>
       ELSE /\ UNCHANGED uploads
            /\ InitFailed
    /\ UNCHANGED <<vsCreated, asstCreated, asstTools, threadsCreated, thread,
                   runsCreated, runStatus>>

\* Variant: assistant_id is stored as soon as the assistant exists.
AssistantCreate_StoresIdEarly(out) ==
    /\ pc = "asst_create"
    /\ IF out = <<>>
       THEN /\ asstCreated' = asstCreated + 1
            /\ asstTools' = (vector_store_id # 0)
            /\ assistant_id' = asstCreated + 1
            /\ calls' = Append(calls, "assistants.create")
            /\ pc' = "thread_create"
            /\ UNCHANGED <<messages, thread_id, rag_files, pending_prompt,
                           keySources, keyLocals, instrLocals, initLocals,
                           turnLocals, cycles>>
       ELSE /\ UNCHANGED <<asstCreated, asstTools>>
            /\ InitFailed
    /\ UNCHANGED <<vsCreated, uploads, threadsCreated, thread, runsCreated,
                   runStatus>>

\* Variant: the file_search tool is put into every assistant payload.
AssistantCreate_AlwaysTools(out) ==
    /\ pc = "asst_create"
    /\ IF out = <<>>
       THEN /\ asstCreated' = asstCreated + 1
            /\ asstTools' = TRUE
            /\ calls' = Append(calls, "assistants.create")
            /\ pc' = "thread_create"
            /\ UNCHANGED <<session, keySources, keyLocals, instrLocals,
                           initLocals, turnLocals, cycles>>
       ELSE /\ UNCHANGED <<asstCreated, asstTools>>
            /\ InitFailed
    /\ UNCHANGED <<vsCreated, uploads, threadsCreated, thread, runsCreated,
                   runStatus>>

\* initialize_assistant(), lines 167-179.
AssistantCreate(out) ==
    /\ pc = "asst_create"
    /\ IF out = <<>>
       THEN /\ asstCreated' = asstCreated + 1
            /\ asstTools' = (vector_store_id # 0)
            /\ calls' = Append(calls, "assistants.create")
            /\ pc' = "thread_create"
            /\ UNCHANGED <<session, keySources, keyLocals, instrLocals,
                           initLocals, turnLocals, cycles>>
       ELSE /\ UNCHANGED <<asstCreated, asstTools>>
            /\ InitFailed
    /\ UNCHANGED <<vsCreated, uploads, threadsCreated, thread, runsCreated,
                   runStatus>>

\* initialize_assistant(), lines 180-184.
ThreadCreate(out) ==
    /\ pc = "thread_create"
    /\ IF out = <<>>
       THEN /\ threadsCreated' = threadsCreated + 1
            /\ assistant_id' = asstCreated
            /\ thread_id' = threadsCreated + 1
            /\ rag_files' = found
            /\ instructionFile' = NoFile
            /\ system_instruction' = <<>>
            /\ calls' = Append(calls, "threads.create")
            /\ pc' = "buttons"
            /\ UNCHANGED <<messages, pending_prompt, keySources, keyLocals,
                           initLocals, turnLocals, cycles>>
       ELSE /\ UNCHANGED threadsCreated
            /\ InitFailed
    /\ UNCHANGED <<vsCreated, uploads, asstCreated, asstTools, thread,
                   runsCreated, runStatus>>

\* main(), lines 270-283: the caption, the shortcut buttons, the transcript.
\* click is the index of the button pressed in this cycle, 0 for none.
Buttons(click) ==
    /\ pc = "buttons"
    /\ pending_prompt' =
           IF click = 0 THEN pending_prompt ELSE SUGGESTED_QUESTIONS[click]
    /\ pc' = "input"
    /\ UNCHANGED <<messages, assistant_id, thread_id, rag_files, service,
                   locals, cycles>>

\* Variant: the staged shortcut is read with get() and stays staged.
ChatInput_NoPop(typed) ==
    /\ pc = "input"
    /\ typedInput' = typed
    /\ prompt' = IF pending_prompt # <<>> /\ typed = <<>>
                 THEN pending_prompt ELSE typed
    /\ UNCHANGED pending_prompt
    /\ pc' = "prompt"
    /\ UNCHANGED <<messages, assistant_id, thread_id, rag_files, service,
                   keySources, keyLocals, instrLocals, initLocals, response,
                   askOutcome, pollTick, calls, cycles>>

\* Variant: a staged shortcut is taken whether or not text was typed.
ChatInput_ShortcutFirst(typed) ==
    /\ pc = "input"
    /\ typedInput' = typed
    /\ IF pending_prompt # <<>>
       THEN /\ prompt' = pending_prompt
            /\ pending_prompt' = <<>>
       ELSE /\ prompt' = typed
            /\ UNCHANGED pending_prompt
    /\ pc' = "prompt"
    /\ UNCHANGED <<messages, assistant_id, thread_id, rag_files, service,
                   keySources, keyLocals, instrLocals, initLocals, response,
                   askOutcome, pollTick, calls, cycles>>

\* main(), lines 285-288: the chat input, then the staged shortcut.
ChatInput(typed) ==
    /\ pc = "input"
    /\ typedInput' = typed
    /\ IF pending_prompt # <<>> /\ typed = <<>>
       THEN /\ prompt' = pending_prompt
            /\ pending_prompt' = <<>>
       ELSE /\ prompt' = typed
            /\ UNCHANGED pending_prompt
    /\ pc' = "prompt"
    /\ UNCHANGED <<messages, assistant_id, thread_id, rag_files, service,
                   keySources, keyLocals, instrLocals, initLocals, response,
                   askOutcome, pollTick, calls, cycles>>

\* main(), line 290 with a falsy prompt: the script ends.
NoPrompt ==
    /\ pc = "prompt"
    /\ prompt = <<>>
    /\ EndCycle
    /\ UNCHANGED <<session, service, cycles>>

\* main(), lines 290-293.
AppendUser ==
    /\ pc = "prompt"
    /\ prompt # <<>>
    /\ messages' = Append(messages, [role |-> "user", content |-> prompt])
    /\ pc' = "post"
    /\ UNCHANGED <<assistant_id, thread_id, rag_files, pending_prompt, service,
                   locals, cycles>>

\* Variant: the OpenAIError is not caught and ends the script run.
AskRaised_Uncaught(exc) ==
    /\ response' = <<>>
    /\ askOutcome' = "raised"
    /\ pc' = "idle"

\* An OpenAIError leaves ask_assistant() and is caught at lines 299-300.
AskRaised(exc) ==
    /\ response' = ApiErrorResponse(exc)
    /\ askOutcome' = "raised"
    /\ pc' = "reply"

\* A return statement of ask_assistant(), assigned at line 298.
AskReturned(text) ==
    /\ response' = text
    /\ askOutcome' = "returned"
    /\ pc' = "reply"

askFrame == <<session, keySources, keyLocals, instrLocals, initLocals,
              prompt, typedInput, cycles>>

\* Variant: the text of the chat input is posted, not the resolved prompt.
PostMessage_PostsTyped(out) ==
    /\ pc = "post"
    /\ calls' = Append(calls, "messages.create")
    /\ IF out = <<>>
       THEN /\ thread' = Append(thread, [role |-> "user",
                                         content |-> <<TextPart(typedInput)>>,
                                         run |-> 0])
            /\ pc' = "run"
            /\ UNCHANGED <<response, askOutcome>>
       ELSE /\ UNCHANGED thread
            /\ AskRaised(out)
    /\ UNCHANGED <<askFrame, pollTick, vsCreated, uploads, asstCreated,
                   asstTools, threadsCreated, runsCreated, runStatus>>

\* ask_assistant(), lines 196-200.
PostMessage(out) ==
    /\ pc = "post"
    /\ calls' = Append(calls, "messages.create")
    /\ IF out = <<>>
       THEN /\ thread' = Append(thread, [role |-> "user",
                                         content |-> <<TextPart(prompt)>>,
                                         run |-> 0])
            /\ pc' = "run"
            /\ UNCHANGED <<response, askOutcome>>
       ELSE /\ UNCHANGED thread
            /\ AskRaised(out)
    /\ UNCHANGED <<askFrame, pollTick, vsCreated, uploads, asstCreated,
                   asstTools, threadsCreated, runsCreated, runStatus>>

\* ask_assistant(), lines 202-205: create_and_poll creates the run ...
CreateRun(out) ==
    /\ pc = "run"
    /\ calls' = Append(calls, "runs.create_and_poll")
    /\ IF out = <<>>
       THEN /\ runsCreated' = runsCreated + 1
            /\ runStatus' = "queued"
            /\ pc' = "poll"
            /\ UNCHANGED <<response, askOutcome>>
       ELSE /\ UNCHANGED <<runsCreated, runStatus>>
            /\ AskRaised(out)
    /\ UNCHANGED <<askFrame, pollTick, vsCreated, uploads, asstCreated,
                   asstTools, threadsCreated, thread>>

\* The service starts the run.
RunStart ==
    /\ pc = "poll"
    /\ runStatus = "queued"
    /\ runStatus' = "in_progress"
    /\ UNCHANGED <<session, locals, cycles, pc, vsCreated, uploads,
                   asstCreated, asstTools, threadsCreated, thread, runsCreated>>

\* The assistant messages a completed run may have added to the thread.
RunOutputs ==
    {<<>>} \cup
    { <<[role |-> "assistant", content |-> c, run |-> runsCreated]>> :
        c \in Replies }

\* The service completes the run, which added the messages in added.
RunComplete(added) ==
    /\ pc = "poll"
    /\ runStatus = "in_progress"
    /\ runStatus' = "completed"
    /\ thread' = thread \o added
    /\ UNCHANGED <<session, locals, cycles, pc, vsCreated, uploads,
                   asstCreated, asstTools, threadsCreated, runsCreated>>

\* The service ends the run in another terminal status.
RunEnd(status) ==
    /\ pc = "poll"
    /\ runStatus \in {"queued", "in_progress"}
    /\ runStatus' = status
    /\ UNCHANGED <<session, locals, cycles, pc, vsCreated, uploads,
                   asstCreated, asstTools, threadsCreated, thread, runsCreated>>

\* ... and create_and_poll retrieves the run again and again until its
\* status is terminal.  The loop of the client library has no iteration or
\* time limit and ask_assistant() passes none.  A retrieval finds the run
\* unfinished and the loop goes round (the count of retrievals is kept
\* modulo 2) ...
PollAgain ==
    /\ pc = "poll"
    /\ runStatus \notin TerminalStatuses
    /\ pollTick' = 1 - pollTick
    /\ UNCHANGED <<askFrame, service, calls, response, askOutcome, pc>>

\* ... or finds it in a terminal status and create_and_poll returns ...
PollReturn ==
    /\ pc = "poll"
    /\ runStatus \in TerminalStatuses
    /\ pollTick' = 0
    /\ pc' = "status"
    /\ UNCHANGED <<askFrame, service, calls, response, askOutcome>>

\* ... or raises.
PollRaise(exc) ==
    /\ pc = "poll"
    /\ pollTick' = 0
    /\ AskRaised(exc)
    /\ UNCHANGED <<askFrame, service, calls>>

\* Variant: the status of the run is not tested before the messages are listed.
RunNotCompleted_FetchAnyway ==
    /\ pc = "status"
    /\ runStatus # "completed"
    /\ calls' = Append(calls, "messages.list")
    /\ AskReturned(FirstAssistantText(MessagesList))
    /\ UNCHANGED <<askFrame, pollTick, service>>

\* ask_assistant(), lines 207-208.
RunNotCompleted ==
    /\ pc = "status"
    /\ runStatus # "completed"
    /\ AskReturned(RUN_ISSUE)
    /\ UNCHANGED <<askFrame, pollTick, service, calls>>

\* Variant: ask_assistant() itself appends the reply it found to the transcript.
ListMessages_AppendsReply(out) ==
    /\ pc = "status"
    /\ runStatus = "completed"
    /\ calls' = Append(calls, "messages.list")
    /\ IF out = <<>>
       THEN /\ AskReturned(FirstAssistantText(MessagesList))
            /\ messages' = Append(messages,
                   [role |-> "assistant",
                    content |-> FirstAssistantText(MessagesList)])
       ELSE /\ AskRaised(out)
            /\ UNCHANGED messages
    /\ UNCHANGED <<assistant_id, thread_id, rag_files, pending_prompt,
                   keySources, keyLocals, instrLocals, initLocals, prompt,
                   typedInput, cycles, pollTick, service>>

\* ask_assistant(), lines 210-215.
ListMessages(out) ==
    /\ pc = "status"
    /\ runStatus = "completed"
    /\ calls' = Append(calls, "messages.list")
    /\ IF out = <<>>
       THEN AskReturned(FirstAssistantText(MessagesList))
       ELSE AskRaised(out)
    /\ UNCHANGED <<askFrame, pollTick, service>>

\* main(), lines 301-303.
AppendAssistant ==
    /\ pc = "reply"
    /\ messages' = Append(messages, [role |-> "assistant", content |-> response])
    /\ pc' = "done"
    /\ UNCHANGED <<assistant_id, thread_id, rag_files, pending_prompt, service,
                   locals, cycles>>

\* main() returns after line 303.
Return ==
    /\ pc = "done"
    /\ EndCycle
    /\ UNCHANGED <<session, service, cycles>>

Next ==
    \/ \E secret \in StoreKeys, env \in EnvKeys, typed \in TypedKeys :
           StartCycle(secret, env, typed)
    \/ StopNoKey
    \/ \E file \in InstructionFiles : Setup(file)
    \/ InitSkip
    \/ \E dir \in FileSystems : FindRagFiles(dir)
    \/ \E out \in Outcomes : VectorStoreCreate(out)
    \/ \E out \in Outcomes : UploadAndPoll(out)
    \/ \E out \in Outcomes : AssistantCreate(out)
    \/ \E out \in Outcomes : ThreadCreate(out)
    \/ \E click \in 0..Len(SUGGESTED_QUESTIONS) : Buttons(click)
    \/ \E typed \in TypedPrompts : ChatInput(typed)
    \/ NoPrompt
    \/ AppendUser
    \/ \E out \in Outcomes : PostMessage(out)
    \/ \E out \in Outcomes : CreateRun(out)
    \/ RunStart
    \/ \E added \in RunOutputs : RunComplete(added)
    \/ \E status \in EndStatuses : RunEnd(status)
    \/ PollAgain
    \/ PollReturn
    \/ \E exc \in ExcDetails : PollRaise(exc)
    \/ RunNotCompleted
    \/ \E out \in Outcomes : ListMessages(out)
    \/ AppendAssistant
    \/ Return

Spec == Init /\ [][Next]_vars

\* The steps of the script itself.  The script is run to its end; the
\* service need not start or end a run, and need not fail a retrieval.
ScriptNext ==
    \/ StopNoKey
    \/ \E file \in InstructionFiles : Setup(file)
    \/ InitSkip
    \/ \E dir \in FileSystems : FindRagFiles(dir)
    \/ \E out \in Outcomes : VectorStoreCreate(out)
    \/ \E out \in Outcomes : UploadAndPoll(out)
    \/ \E out \in Outcomes : AssistantCreate(out)
    \/ \E out \in Outcomes : ThreadCreate(out)
    \/ \E click \in 0..Len(SUGGESTED_QUESTIONS) : Buttons(click)
    \/ \E typed \in TypedPrompts : ChatInput(typed)
    \/ NoPrompt
    \/ AppendUser
    \/ \E out \in Outcomes : PostMessage(out)
    \/ \E out \in Outcomes : CreateRun(out)
    \/ PollAgain
    \/ PollReturn
    \/ RunNotCompleted
    \/ \E out \in Outcomes : ListMessages(out)
    \/ AppendAssistant
    \/ Return

LiveSpec == Spec /\ WF_vars(ScriptNext)

----------------------------------------------------------------------------
(* Properties *)

Last(s) == s[Len(s)]

\* The positions of main() inside the call of ask_assistant().
AskPcs == {"post", "run", "poll", "status"}

UserTurn(text)      == [role |-> "user", content |-> text]
AssistantTurn(text) == [role |-> "assistant", content |-> text]

AssistantMessages == SelectSeq(thread, LAMBDA m : m.role = "assistant")

\* Every text fragment of the message consists of whitespace only.
BlankMessage(m) ==
    \A i \in 1..Len(m.content) :
        m.content[i].type = "text" =>
            \A j \in 1..Len(m.content[i].text) :
                m.content[i].text[j] \in Whitespace

\* ask_assistant() has returned a value for the current turn.
AskHasReturned == pc = "reply" /\ askOutcome = "returned"

IsPrefix(s, t) == Len(s) <= Len(t) /\ SubSeq(t, 1, Len(s)) = s

\* C2: the transcript is seeded once, with the greeting alone, and from then
\* on every step leaves it as it is or appends exactly one entry to it, so
\* each earlier transcript is a prefix of every later one and N appends give
\* N+1 entries.
C2_TranscriptAppendOnly ==
    [][ /\ messages = <<>> => messages' \in {<<>>, <<GREETING>>}
        /\ messages # <<>> =>
               /\ IsPrefix(messages, messages')
               /\ Len(messages') \in {Len(messages), Len(messages) + 1}
               /\ messages'[1] = GREETING ]_vars

C2_Witness ==
    /\ pc = "done"
    /\ cycles = 2
    /\ Len(messages) = 5
    /\ messages[1] = GREETING

\* The transcript is the greeting followed by user and assistant turns in
\* alternation.
Alternates(t) ==
    /\ t[1] = GREETING
    /\ \A i \in 2..Len(t) :
           t[i].role = IF i % 2 = 0 THEN "user" ELSE "assistant"

\* C3: a submitted prompt is in the transcript as the last, user, turn during
\* the whole remote exchange; the exchange, failed or not, is followed by the
\* append of exactly one assistant turn after it, and the script then ends
\* with a transcript of complete user/assistant pairs.
C3_TurnPairInv ==
    /\ messages # <<>> => Alternates(messages)
    /\ pc \in AskPcs \cup {"reply"} =>
           /\ Len(messages) % 2 = 0
           /\ Last(messages) = UserTurn(prompt)
    /\ pc = "reply" => askOutcome \in {"returned", "raised"}
    /\ pc = "done" =>
           /\ Len(messages) % 2 = 1
           /\ Len(messages) >= 3
           /\ messages[Len(messages) - 1] = UserTurn(prompt)
           /\ Last(messages) = AssistantTurn(response)
    /\ (pc \notin AskPcs \cup {"reply"} /\ messages # <<>>) =>
           Len(messages) % 2 = 1
    /\ calls # <<>> /\ Last(calls) \in {"messages.create", "runs.create_and_poll",
                                        "messages.list"} =>
           /\ pc \in AskPcs \cup {"reply", "done"}
           /\ prompt # <<>>
           /\ \E i \in 2..Len(messages) : messages[i] = UserTurn(prompt)

C3_Witness ==
    /\ pc = "done"
    /\ askOutcome = "raised"
    /\ Len(messages) = 5
    /\ messages[4] = UserTurn(prompt)
    /\ messages[5] = AssistantTurn(response)

\* The text holds the detail of a raised OpenAIError or a credential.
RawTokens ==
    UNION { {e[i] : i \in 1..Len(e)} : e \in ExcDetails }
        \cup UNION { {k[i] : i \in 1..Len(k)} :
                        k \in StoreKeys \cup EnvKeys \cup TypedKeys }

HasRawDetail(text) == \E i \in 1..Len(text) : text[i] \in RawTokens

\* C4 (as stated): no assistant turn of the transcript holds the detail of a
\* remote error or the credential.
C4_NoRawErrorInTranscript ==
    \A i \in 1..Len(messages) :
        messages[i].role = "assistant" => ~HasRawDetail(messages[i].content)

\* C5 (as stated): in one session at most one vector store is created and at
\* most one file batch is uploaded, reruns after a failed initialisation
\* included.
C5_IndexCreatedAtMostOnce == vsCreated <= 1 /\ uploads <= 1


Suggested == {SUGGESTED_QUESTIONS[i] : i \in 1..Len(SUGGESTED_QUESTIONS)}

\* The user turns of the transcript t that hold a suggested question.
ShortcutTurns(t) ==
    Cardinality({i \in 1..Len(t) : t[i].role = "user" /\ t[i].content \in Suggested})

\* C6: a question is staged by a button click only; the consumption of a
\* staged question hands it on as the prompt and clears it, so that a second
\* consumption finds nothing; and a user turn holding a suggested question is
\* appended only in a run of the script that has cleared the stage, one turn
\* per consumption.
C6_ShortcutOneShot ==
    [][ /\ (pending_prompt = <<>> /\ pending_prompt' # <<>>) =>
               (pc = "buttons" /\ pending_prompt' \in Suggested)
        /\ (pc = "input" /\ pending_prompt # <<>> /\ typedInput' = <<>>) =>
               (prompt' = pending_prompt /\ pending_prompt' = <<>>)
        /\ (pc' = "prompt" /\ typedInput' = <<>> /\ prompt' # <<>>) =>
               (pending_prompt' = <<>> /\ pending_prompt = prompt')
        /\ ShortcutTurns(messages') # ShortcutTurns(messages) =>
               /\ ShortcutTurns(messages') = ShortcutTurns(messages) + 1
               /\ pc = "prompt"
               /\ typedInput = <<>>
               /\ pending_prompt = <<>>
               /\ pending_prompt' = <<>> ]_vars

C6_Witness ==
    /\ pc = "done"
    /\ cycles = 2
    /\ typedInput = <<>>
    /\ prompt = SUGGESTED_QUESTIONS[2]
    /\ pending_prompt = <<>>
    /\ ShortcutTurns(messages) = 1
    /\ Len(messages) = 5

\* The user messages of the session's thread.
UserMessages == SelectSeq(thread, LAMBDA m : m.role = "user")

\* C7: in a run of the script that got text from the chat input, the prompt
\* is that text whether or not a shortcut is staged: the user turn appended
\* and the message posted to the thread hold the typed text.
C7_TypedInputFirst ==
    (pc \in {"prompt", "done"} \cup AskPcs \cup {"reply"} /\ typedInput # <<>>) =>
        /\ prompt = typedInput
        /\ pc # "prompt" =>
               \E i \in 2..Len(messages) :
                   /\ i >= Len(messages) - 1
                   /\ messages[i] = UserTurn(typedInput)
        /\ pc \in {"run", "poll", "status"} =>
               Last(UserMessages).content = <<TextPart(typedInput)>>

C7_Witness ==
    /\ pc = "run"
    /\ typedInput # <<>>
    /\ pending_prompt # <<>>
    /\ Last(messages) = UserTurn(typedInput)
    /\ Last(UserMessages).content = <<TextPart(typedInput)>>

\* C8: a run of the script whose three key sources are all empty resolves
\* the empty key, builds no client, issues no remote request and ends at the
\* key test, leaving the service as it was; no client is built and no request
\* is issued in any run whose resolved key is empty.
C8_NoRequestWithoutKey ==
    [][ /\ (pc' = "key" /\ secretKey' = <<>> /\ envKey' = <<>> /\ typedKey' = <<>>) =>
               api_key' = <<>>
        /\ (pc' # "idle" /\ api_key' = <<>>) =>
               (pc' = "key" /\ ~clientBuilt' /\ calls' = <<>>)
        /\ (clientBuilt' \/ calls' # <<>>) => api_key' # <<>>
        /\ (pc = "key" /\ api_key = <<>>) =>
               (pc' = "idle" /\ service' = service /\ session' = session) ]_vars

C8_Witness ==
    /\ pc = "key"
    /\ secretKey = <<>>
    /\ envKey = <<>>
    /\ typedKey = <<>>
    /\ api_key = <<>>
    /\ assistant_id # 0
    /\ calls = <<>>

\* C9: get_api_key returns the secret when the secret is not empty, and has
\* then neither read the environment nor shown the input; else the
\* environment value when that is not empty, without showing the input; else
\* the typed text.
C9_KeyPriority ==
    pc = "key" =>
        /\ secretKey # <<>> =>
               (api_key = secretKey /\ ~envRead /\ ~prompted)
        /\ (secretKey = <<>> /\ envKey # <<>>) =>
               (api_key = envKey /\ envRead /\ ~prompted)
        /\ (secretKey = <<>> /\ envKey = <<>>) =>
               (api_key = typedKey /\ envRead /\ prompted)
        /\ prompted => (secretKey = <<>> /\ envKey = <<>>)

C9_Witness ==
    /\ pc = "key"
    /\ secretKey # <<>>
    /\ envKey # <<>>
    /\ typedKey # <<>>
    /\ api_key = secretKey
    /\ ~envRead

\* C10 (as stated): a call of ask_assistant that has begun to poll its run
\* eventually stops polling, whatever the service does.
C10_PollTerminates == (pc = "poll") ~> (pc # "poll")


\* The requests of ask_assistant() among those issued in this run of the script.
TurnCalls ==
    SelectSeq(calls, LAMBDA c :
        c \in {"messages.create", "runs.create_and_poll", "messages.list"})

Protocol == <<"messages.create", "runs.create_and_poll", "messages.list">>

\* C11: the requests of a turn are issued in the order post, run, list, each
\* at most once; the post adds one user message holding the prompt alone to
\* the thread; a run is created only after the post; the messages are listed
\* only when the run has ended completed, and a turn that returned normally
\* has listed them exactly when its run completed; the pair of handles of the
\* session, once set, is never replaced and no second thread is created.
C11_ThreadedRunProtocol ==
    [][ /\ IsPrefix(TurnCalls', Protocol)
        /\ (thread' # thread /\ pc = "post") =>
               thread' = Append(thread, [role |-> "user",
                                         content |-> <<TextPart(prompt)>>,
                                         run |-> 0])
        /\ UserMessages' # UserMessages => pc = "post"
        /\ runsCreated' # runsCreated =>
               /\ runsCreated' = runsCreated + 1
               /\ TurnCalls = <<"messages.create">>
               /\ Last(UserMessages).content = <<TextPart(prompt)>>
        /\ (Len(TurnCalls') > Len(TurnCalls) /\ Last(TurnCalls') = "messages.list") =>
               (pc = "status" /\ runStatus = "completed")
        /\ (pc = "status" /\ runStatus # "completed") =>
               (calls' = calls /\ pc' = "reply")
        /\ (pc' = "reply" /\ askOutcome' = "returned") =>
               TurnCalls' = IF runStatus' = "completed" THEN Protocol
                            ELSE SubSeq(Protocol, 1, 2)
        /\ assistant_id # 0 =>
               /\ assistant_id' = assistant_id
               /\ thread_id' = thread_id
               /\ threadsCreated' = threadsCreated
               /\ asstCreated' = asstCreated
        /\ pc \in AskPcs => (assistant_id # 0 /\ thread_id = threadsCreated) ]_vars

C11_Witness ==
    /\ pc = "done"
    /\ cycles = 2
    /\ askOutcome = "returned"
    /\ runStatus = "completed"
    /\ TurnCalls = Protocol
    /\ runsCreated = 2
    /\ Len(UserMessages) = 2


\* The positions of main() inside the call of initialize_assistant().
InitPcs == {"init", "vs_create", "upload", "asst_create", "thread_create"}

\* C12 (as stated): the instruction passed to initialize_assistant is the
\* (trimmed) text of the override file when the file is present and not
\* empty, and the hardcoded instruction whenever it is absent or empty.
C12_OverrideOrFallback ==
    pc \in InitPcs =>
        system_instruction =
            IF instructionFile.exists /\ instructionFile.text # <<>>
            THEN Strip(instructionFile.text)
            ELSE SYSTEM_PROMPT_FALLBACK


\* C13: a run of initialize_assistant that found no document creates no
\* vector store and uploads nothing; an assistant has the file_search tool
\* bound exactly when a vector store id was obtained, which takes a found
\* document and a returned upload; and a session made ready with no document
\* has both handles set, an assistant without the tool, and takes turns.
C13_NoDocumentsNoIndex ==
    /\ pc \in {"vs_create", "upload"} => found # <<>>
    /\ (pc \in InitPcs /\ found = <<>>) =>
           /\ vector_store_id = 0
           /\ \A i \in 1..Len(calls) :
                  calls[i] \notin {"vector_stores.create",
                                   "file_batches.upload_and_poll"}
    /\ vector_store_id # 0 =>
           /\ found # <<>>
           /\ \E i \in 1..Len(calls) : calls[i] = "file_batches.upload_and_poll"
           /\ uploads >= 1
    /\ pc = "thread_create" => asstTools = (vector_store_id # 0)
    /\ assistant_id # 0 =>
           /\ thread_id # 0
           /\ asstTools = (rag_files # <<>>)
    /\ (pc \in AskPcs \cup {"reply", "done"}) => assistant_id # 0

C13_Witness ==
    /\ pc = "done"
    /\ assistant_id # 0
    /\ thread_id # 0
    /\ rag_files = <<>>
    /\ ~asstTools
    /\ vsCreated = 0
    /\ uploads = 0
    /\ askOutcome = "returned"
    /\ runStatus = "completed"
    /\ response # FALLBACK


\* C14: no step taken inside ask_assistant(), its normal returns and its
\* raised errors included, changes the transcript, the staged shortcut, the
\* two handles or rag_files; the reply enters the transcript by the append
\* of main() that follows the call.
C14_AskLeavesSessionAlone ==
    [][ /\ pc \in AskPcs =>
               /\ messages' = messages
               /\ pending_prompt' = pending_prompt
               /\ assistant_id' = assistant_id
               /\ thread_id' = thread_id
               /\ rag_files' = rag_files
               /\ pc' \in AskPcs \cup {"reply"}
        /\ pc = "reply" =>
               /\ messages' = Append(messages, AssistantTurn(response))
               /\ UNCHANGED <<pending_prompt, assistant_id, thread_id, rag_files>> ]_vars

C14_Witness ==
    /\ pc = "reply"
    /\ askOutcome = "returned"
    /\ runStatus = "completed"
    /\ Len(messages) = 4
    /\ pending_prompt # <<>>
    /\ rag_files # <<>>
    /\ Last(messages) = UserTurn(prompt)


\* C15: every assistant turn of the transcript, and every reply about to be
\* appended, is a non-empty text, whatever the remote exchange gave.
C15_AssistantTurnsNonEmpty ==
    /\ \A i \in 1..Len(messages) :
           messages[i].role = "assistant" => messages[i].content # <<>>
    /\ pc \in {"reply", "done"} => response # <<>>

C15_Witness ==
    /\ pc = "done"
    /\ askOutcome = "returned"
    /\ runStatus = "completed"
    /\ AssistantMessages # <<>>
    /\ Last(AssistantMessages).run = runsCreated
    /\ BlankMessage(Last(AssistantMessages))
    /\ Last(messages) = AssistantTurn(FALLBACK)


HandlesSet == assistant_id # 0 /\ thread_id # 0

\* C16: assistant_id is set exactly when thread_id is; the two are written in
\* one step, the one in which the thread is created, after an assistant was
\* created and, when documents were found, after their upload; the script is
\* past initialize_assistant(), and so in ask_assistant(), only with both set;
\* and a run of the script that leaves initialize_assistant() by an error
\* ends with both unset, without having handled a prompt.
C16_HandlesSetTogether ==
    [][ /\ (assistant_id' # 0) <=> (thread_id' # 0)
        /\ (assistant_id' # assistant_id \/ thread_id' # thread_id) =>
               /\ pc = "thread_create"
               /\ assistant_id = 0 /\ thread_id = 0
               /\ assistant_id' = asstCreated /\ asstCreated >= 1
               /\ thread_id' = threadsCreated' /\ threadsCreated' = threadsCreated + 1
               /\ found # <<>> => (vector_store_id # 0 /\ uploads >= 1)
        /\ pc' \in {"buttons", "input", "prompt", "reply", "done"} \cup AskPcs =>
               (assistant_id' # 0 /\ thread_id' # 0)
        /\ (pc \in InitPcs \ {"init"} /\ pc' = "idle") =>
               /\ assistant_id' = 0 /\ thread_id' = 0
               /\ prompt = <<>> /\ messages' = messages /\ thread' = thread ]_vars

C16_Witness ==
    /\ pc = "idle"
    /\ cycles = 1
    /\ vsCreated = 1
    /\ uploads = 1
    /\ asstCreated = 1
    /\ threadsCreated = 0
    /\ assistant_id = 0
    /\ thread_id = 0
    /\ Len(messages) = 1


\* C17 (as stated): the text ask_assistant returns after a completed run is
\* the text of an assistant message that the run of this turn added to the
\* thread (or the fallback, when that text is empty or the thread holds no
\* assistant message at all), never the text of a message of an earlier run.
C17_ReplyFromOwnRun ==
    (AskHasReturned /\ runStatus = "completed") =>
        \/ AssistantMessages = <<>> /\ response = FALLBACK
        \/ \E i \in 1..Len(thread) :
               /\ thread[i].role = "assistant"
               /\ thread[i].run = runsCreated
               /\ response = extract_assistant_text(thread[i])


\* The texts of the user turns of the transcript, and of the user messages
\* of the thread, in order.
LocalUserTexts ==
    LET u == SelectSeq(messages, LAMBDA m : m.role = "user")
    IN  [i \in 1..Len(u) |-> u[i].content]

ThreadUserTexts ==
    [i \in 1..Len(UserMessages) |-> UserMessages[i].content[1].text]

\* s is t with some entries left out.
RECURSIVE IsSubseq(_, _)
IsSubseq(s, t) ==
    IF s = <<>> THEN TRUE
    ELSE IF t = <<>> THEN FALSE
    ELSE IF Head(s) = Head(t) THEN IsSubseq(Tail(s), Tail(t))
    ELSE IsSubseq(s, Tail(t))

\* The turn is a reply built from a raised OpenAIError: it begins as the
\* apology of the except-branch does.
IsApiErrorTurn(m) ==
    /\ m.role = "assistant"
    /\ m.content # <<>>
    /\ m.content[1] = API_ERROR[1]

\* C18 (as stated): when a run of the script is over, the user messages of
\* the thread are the user turns of the transcript, in order.
C18_Original == pc = "idle" => ThreadUserTexts = LocalUserTexts

\* C18 (amended): a prompt is appended to the transcript always and to the
\* thread exactly when its post returns; so the user messages of the thread
\* are the user turns of the transcript with those left out whose post
\* raised, in order, and the two are equal after every run of the script as
\* long as no turn ended in an API error.
C18_ThreadFollowsTranscript ==
    [][ /\ (thread' # thread \/ messages' # messages) =>
               IsSubseq(ThreadUserTexts', LocalUserTexts')
        /\ (messages' # messages /\ LocalUserTexts' # LocalUserTexts) =>
               (pc = "prompt" /\ LocalUserTexts' = Append(LocalUserTexts, prompt))
        /\ (pc = "post" /\ pc' = "run") =>
               /\ ThreadUserTexts' = Append(ThreadUserTexts, prompt)
               /\ Last(LocalUserTexts) = prompt
        /\ (pc = "post" /\ pc' # "run") =>
               (thread' = thread /\ askOutcome' = "raised")
        /\ (pc # "post" /\ thread' # thread) => ThreadUserTexts' = ThreadUserTexts
        /\ (pc' = "idle" /\ pc # "idle"
                /\ \A i \in 1..Len(messages') : ~IsApiErrorTurn(messages'[i])) =>
               ThreadUserTexts' = LocalUserTexts' ]_vars

C18_Witness ==
    /\ pc = "idle"
    /\ Len(LocalUserTexts) = 2
    /\ Len(ThreadUserTexts) = 1
    /\ ThreadUserTexts[1] = LocalUserTexts[2]
    /\ LocalUserTexts[1] # LocalUserTexts[2]


\* C19 (as stated): once a run of the script is past the handling of the
\* staged shortcut (line 288), and so at its end and between the runs, no
\* shortcut is staged.
C19_NoShortcutOutlivesCycle ==
    pc \in {"prompt", "reply", "done", "idle"} \cup AskPcs =>
        pending_prompt = <<>>

====
